---- MODULE Spec2Model ----
(***************************************************************************)
(* A model of hud_normalizer.py: the HUD directory tree, the four stages   *)
(* main() runs over it (normalize_filenames, normalize_clientschemes,      *)
(* process_cfg_files, process_res_files) and the text rewrites they apply. *)
(*                                                                         *)
(* Text is modelled at the level of tokens: a path is a sequence of        *)
(* segment tokens and separator tokens ("/" or "\\"), so "../cfg/X.txt" is *)
(* <<"..", "/", "cfg", "/", "X.txt">>.  No segment token contains a        *)
(* separator, a quote or the text "../", so substring tests, counts and    *)
(* the regular expressions of the source act on token boundaries.          *)
(* A file's content is a sequence of lines, each one directive occurrence: *)
(* [kind, pre, path, suf] with kind "base" (#base "<path>"), "font"        *)
(* ("font" "<path>"), "schema" (a quoted string) or "echo" (echo #base).   *)
(***************************************************************************)
EXTENDS Integers, Sequences, FiniteSets, TLC

VARIABLES
    fs,            \* the tree: entry id -> [parent, name, kind, content]
    hud_name,      \* hud_dir.name
    stage,         \* where main() is: "main", "names", "renaming", "scheme", "walk",
                   \* "cfg", "res", "done", or "crashed" (an exception ended it)
    run,           \* which invocation of the tool this is (1 or 2)
    todo,          \* normalize_filenames: the paths of all_paths not yet iterated
    rename_count,  \* normalize_filenames: rename_count
    visited,       \* process_clientscheme: the visited set (resolved paths)
    stack,         \* process_clientscheme: the active calls, innermost last
    call,          \* process_clientscheme: the call being entered, or NoCall
    counts,        \* the modified_count each later stage reported in this run
    fs0,           \* history: the tree the first invocation started from
    rec,           \* history: the entry each path of all_paths named when listed
    applied,       \* history: font rewrites applied to each file in this run
    snap           \* history: the tree at the end of the first invocation

vars == <<fs, hud_name, stage, run, todo, rename_count, visited, stack,
          call, counts, fs0, rec, applied, snap>>

-----------------------------------------------------------------------------
(* Bounds of the model. *)

MaxEntries == 4      \* entries of a tree in SpecNames
MaxBase == 3         \* #base directives of a tree in SpecScheme
MaxEchoSegs == 4     \* directory segments of an echo path in SpecEcho
MaxResSegs == 5      \* directory segments of a #base path in SpecRes
MaxDepth == 2        \* depth of the .res file in SpecRes

-----------------------------------------------------------------------------
(* Text. *)

UP == ".."
SL == "/"
BS == "\\"

\* str.lower() on the tokens of the model.
Lower(t) ==
    CASE t = "Ab" -> "ab"
      [] t = "AB" -> "ab"
      [] t = "C" -> "c"
      [] t = "Resource" -> "resource"
      [] t = "Scripts" -> "scripts"
      [] t = "CFG" -> "cfg"
      [] t = "UI" -> "ui"
      [] t = "Foo.res" -> "foo.res"
      [] t = "A.VMT" -> "a.vmt"
      [] t = "X.txt" -> "x.txt"
      [] t = "Fonts.res" -> "fonts.res"
      [] t = "ClientScheme.res" -> "clientscheme.res"
      [] t = "Fonts" -> "fonts"
      [] t = "Tf2Build.ttf" -> "tf2build.ttf"
      [] t = "MyHud" -> "myhud"
      [] OTHER -> t

LowerSeq(p) == [i \in DOMAIN p |-> Lower(p[i])]

\* path.replace('\\', '/')
Slashed(p) == [i \in DOMAIN p |-> IF p[i] = BS THEN SL ELSE p[i]]

\* q in p, for token sequences
Contains(p, q) ==
    \E i \in 0..(Len(p) - Len(q)) : SubSeq(p, i + 1, i + Len(q)) = q

Front(p) == SubSeq(p, 1, Len(p) - 1)
Last(p) == p[Len(p)]

RECURSIVE Ups(_)
Ups(k) == IF k = 0 THEN <<>> ELSE <<UP, SL>> \o Ups(k - 1)

\* The number of leading "../" of p.
RECURSIVE LeadingUps(_)
LeadingUps(p) ==
    IF Len(p) >= 2 /\ p[1] = UP /\ p[2] = SL
    THEN 1 + LeadingUps(SubSeq(p, 3, Len(p)))
    ELSE 0

extract_path_after_parents(p) == SubSeq(p, 2 * LeadingUps(p) + 1, Len(p))

\* path.count('../')
CountUps(p) == Cardinality({i \in 1..(Len(p) - 1) : p[i] = UP /\ p[i + 1] = SL})

-----------------------------------------------------------------------------
(* The tree. *)

Root == 0
NoEntry == -1

PathOf(f, i) ==
    LET RECURSIVE P(_)
        P(j) == IF f[j].parent = Root THEN <<f[j].name>>
                ELSE Append(P(f[j].parent), f[j].name)
    IN P(i)

\* The entry a path (names from the root down) names, or NoEntry.
Lookup(f, p) ==
    LET RECURSIVE W(_, _)
        W(cur, q) ==
            IF q = <<>> THEN cur
            ELSE LET kids == {i \in DOMAIN f : f[i].parent = cur /\ f[i].name = Head(q)}
                 IN IF kids = {} THEN NoEntry
                    ELSE W(CHOOSE i \in kids : TRUE, Tail(q))
    IN W(Root, p)

Exists(f, p) == Lookup(f, p) # NoEntry

Children(f, i) == {j \in DOMAIN f : f[j].parent = i}

\* os.rename(src, dst): [ok, fs].  A missing source or parent raises; an existing
\* destination is replaced when it is a file (or an empty directory under a
\* directory), and raises otherwise.
OsRename(f, src, dst) ==
    LET s == Lookup(f, src)
        t == Lookup(f, dst)
        np == Lookup(f, Front(dst))
        moved == [f[s] EXCEPT !.name = Last(dst), !.parent = np]
    IN IF s = NoEntry \/ np = NoEntry THEN [ok |-> FALSE, fs |-> f]
       ELSE IF t = NoEntry \/ t = s
            THEN [ok |-> TRUE, fs |-> [f EXCEPT ![s] = moved]]
       ELSE IF f[t].kind = f[s].kind /\ Children(f, t) = {}
            THEN [ok |-> TRUE,
                  fs |-> [i \in DOMAIN f \ {t} |-> IF i = s THEN moved ELSE f[i]]]
       ELSE [ok |-> FALSE, fs |-> f]

-----------------------------------------------------------------------------
(* Stage 1: normalize_filenames. *)

\* A listing that leaves the directories out.
FilePathsOnly(f) == {PathOf(f, i) : i \in {j \in DOMAIN f : f[j].kind = "file"}}
\* hud_dir.rglob('*')
AllPaths(f) == {PathOf(f, i) : i \in DOMAIN f}

\* The order without reverse=True.
ShallowestFirst(s) == {p \in s : \A q \in s : Len(q) >= Len(p)}

\* sorted(..., key=lambda p: len(p.parts), reverse=True): the paths that may come
\* next among those not yet iterated (ties come in the directory listing's order).
SortedFirst(s) == {p \in s : \A q \in s : Len(q) <= Len(p)}

\* original_name != lowercase_name
NeedsRename(name) == name # Lower(name)

\* A rename that does not look at the target first.
AlwaysFree(f, target) == TRUE

\* if not target.exists()
TargetFree(f, target) == ~Exists(f, target)

NoCall == <<"-">>

ListPaths ==
    /\ stage = "names"
    /\ stage' = "renaming"
    /\ todo' = AllPaths(fs)
    /\ rec' = [p \in AllPaths(fs) |-> Lookup(fs, p)]
    /\ rename_count' = 0
    /\ UNCHANGED <<fs, hud_name, run, visited, stack, call, counts, fs0, applied,
                   snap>>

RenameStep ==
    /\ stage = "renaming"
    /\ \E item \in SortedFirst(todo) :
         LET original_name == Last(item)
             lowercase_name == Lower(original_name)
             target == Append(Front(item), lowercase_name)
             r == OsRename(fs, item, target)
         IN /\ todo' = todo \ {item}
            /\ IF NeedsRename(original_name) /\ TargetFree(fs, target)
               THEN IF r.ok
                    THEN /\ fs' = r.fs
                         /\ rename_count' = rename_count + 1
                         /\ stage' = stage
                    ELSE /\ stage' = "crashed"
                         /\ UNCHANGED <<fs, rename_count>>
               ELSE UNCHANGED <<fs, rename_count, stage>>
    /\ UNCHANGED <<hud_name, run, visited, stack, call, counts, fs0, rec, applied,
                   snap>>

FinishNames ==
    /\ stage = "renaming" /\ todo = {}
    /\ stage' = "scheme"
    /\ UNCHANGED <<fs, hud_name, run, todo, rename_count, visited, stack, call,
                   counts, fs0, rec, applied, snap>>

-----------------------------------------------------------------------------
(* File names and tokens the patterns of the source tell apart. *)

\* Names that end in ".res" / ".cfg" as written (rglob("*.res"), rglob("*.cfg") on
\* a case-sensitive file system).
ResNames == {"clientscheme.res", "fonts.res", "foo.res", "a.res", "b.res"}
CfgNames == {"x.cfg", "bar.cfg"}

\* Tokens that end in ".res" or ".vmt" in any letter case (re.IGNORECASE).
ResVmtTokens == ResNames \cup {"ClientScheme.res", "Fonts.res", "Foo.res",
                              "missing.res", "a.vmt", "A.VMT"}
ResTokens == ResVmtTokens \ {"a.vmt", "A.VMT"}

\* Tokens that contain "cfg" in any letter case; in each the text ends with it.
CfgTokens == {"cfg", "CFG"} \cup CfgNames

Line(k, pre, path, suf) == [kind |-> k, pre |-> pre, path |-> path, suf |-> suf]
BaseLine(path) == Line("base", "#base \"", path, "\"")
FontLine(path) == Line("font", "\"font\" \"", path, "\"")

-----------------------------------------------------------------------------
(* Stage 2: normalize_clientschemes and process_clientscheme. *)

\* re.sub(r'("font"\s+")(.*?)(")', ...): the value with backslashes turned and
\* lowercased.
OnlyLowerFonts(content) ==
    [n \in DOMAIN content |->
        IF content[n].kind = "font"
        THEN [content[n] EXCEPT !.path = LowerSeq(content[n].path)]
        ELSE content[n]]
FontsNormalized(content) ==
    [n \in DOMAIN content |->
        IF content[n].kind = "font"
        THEN [content[n] EXCEPT !.path = LowerSeq(Slashed(content[n].path))]
        ELSE content[n]]

\* re.compile(r'^#base\s+"([^"]+)"', re.MULTILINE).finditer(content): the paths
\* of the line-initial #base directives, in order.
BasePaths(content) ==
    LET IsBase(l) == l.kind = "base" /\ l.path # <<>>
        lines == SelectSeq(content, IsBase)
    IN [n \in DOMAIN lines |-> lines[n].path]

\* A path outside the HUD folder; the model holds no entry there.
Outside == <<"<outside>">>

\* (file.parent / base_path).resolve(): the names from the root down.  A backslash
\* separates nothing on a POSIX file system: it is part of a name, which no
\* entry of the model carries.
ResolveBase(file, base_path) ==
    LET IsSeg(t) == t # SL
        segs == SelectSeq(base_path, IsSeg)
        RECURSIVE N(_, _)
        N(dir, q) ==
            IF q = <<>> THEN dir
            ELSE IF dir = Outside THEN Outside
            ELSE IF Head(q) = UP
                 THEN IF dir = <<>> THEN Outside ELSE N(Front(dir), Tail(q))
            ELSE N(Append(dir, Head(q)), Tail(q))
    IN IF \E n \in DOMAIN base_path : base_path[n] = BS THEN Outside
       ELSE N(Front(file), segs)

\* A walk that keeps no visited set.
NeverSeen(file, seen) == FALSE

\* file in visited
Seen(file, seen) == file \in seen

StartFile == <<"resource", "clientscheme.res">>

\* normalize_clientschemes up to its call of process_clientscheme.
StartScheme ==
    /\ stage = "scheme"
    /\ IF Exists(fs, StartFile)
       THEN /\ stage' = "walk"
            /\ call' = StartFile
       ELSE /\ stage' = "cfg"
            /\ call' = NoCall
    /\ visited' = {}
    /\ stack' = <<>>
    /\ counts' = [counts EXCEPT !.scheme = 0]
    /\ applied' = [i \in DOMAIN fs |-> 0]
    /\ UNCHANGED <<fs, hud_name, run, todo, rename_count, fs0, rec, snap>>

\* Where process_clientscheme is: a call being entered, the loop of the innermost
\* active call with matches left or none, or the outermost call returned.
AtEntry == stage = "walk" /\ call # NoCall
AtMatch == stage = "walk" /\ call = NoCall /\ stack # <<>> /\ Last(stack).todo # <<>>
AtLoopEnd == stage = "walk" /\ call = NoCall /\ stack # <<>> /\ Last(stack).todo = <<>>
AtEnd == stage = "walk" /\ call = NoCall /\ stack = <<>>

\* process_clientscheme from its entry to the start of its loop.
SchemeVisit ==
    /\ AtEntry
    /\ call' = NoCall
    /\ IF Seen(call, visited) \/ ~Exists(fs, call)
       THEN UNCHANGED <<fs, stage, visited, stack, counts, applied>>
       ELSE LET i == Lookup(fs, call)
                content == FontsNormalized(fs[i].content)
            IN IF fs[i].kind = "dir"
               THEN /\ stage' = "crashed"
                    /\ UNCHANGED <<fs, visited, stack, counts, applied>>
               ELSE /\ visited' = visited \cup {call}
                    /\ fs' = [fs EXCEPT ![i].content = content]
                    /\ counts' = [counts EXCEPT !.scheme =
                                     IF content # fs[i].content THEN @ + 1 ELSE @]
                    /\ applied' = [applied EXCEPT ![i] = @ + 1]
                    /\ stack' = Append(stack, [file |-> call, todo |-> BasePaths(content)])
                    /\ stage' = stage
    /\ UNCHANGED <<hud_name, run, todo, rename_count, fs0, rec, snap>>

\* One iteration of the loop over the #base matches: the recursive call.
SchemeInclude ==
    /\ AtMatch
    /\ LET top == Last(stack)
       IN /\ call' = ResolveBase(top.file, Head(top.todo))
          /\ stack' = [stack EXCEPT ![Len(stack)].todo = Tail(top.todo)]
    /\ UNCHANGED <<fs, hud_name, stage, run, todo, rename_count, visited, counts,
                   fs0, rec, applied, snap>>

\* The loop is over: return modified_count.
SchemeReturn ==
    /\ AtLoopEnd
    /\ stack' = Front(stack)
    /\ UNCHANGED <<fs, hud_name, stage, run, todo, rename_count, visited, call,
                   counts, fs0, rec, applied, snap>>

\* The outermost call has returned to normalize_clientschemes.
FinishScheme ==
    /\ AtEnd
    /\ stage' = "cfg"
    /\ UNCHANGED <<fs, hud_name, run, todo, rename_count, visited, stack, call,
                   counts, fs0, rec, applied, snap>>

-----------------------------------------------------------------------------
(* Stage 3: process_cfg_files and normalize_cfg_echo_paths. *)

\* re.sub(r'(\.\./)+<seg>/', repl, path)
SubUps(p, seg, repl) ==
    LET RECURSIVE S(_)
        S(q) ==
            IF q = <<>> THEN <<>>
            ELSE LET k == LeadingUps(q)
                 IN IF k >= 1 /\ Len(q) >= 2 * k + 2
                       /\ q[2 * k + 1] = seg /\ q[2 * k + 2] = SL
                    THEN repl \o S(SubSeq(q, 2 * k + 3, Len(q)))
                    ELSE <<Head(q)>> \o S(Tail(q))
    IN S(p)

Canonical(h, seg) == <<SL, "custom", SL, h, SL, seg, SL>>
Explicit(h, seg) == <<UP, SL, UP, SL, "custom", SL, h, SL, seg, SL>>

\* One of the two rules of normalize_echo_path.
ExplicitRule(p, h, seg) ==
    IF Contains(p, <<SL, seg, SL>>) /\ ~Contains(p, Canonical(h, seg))
    THEN SubUps(p, seg, Explicit(h, seg))
    ELSE p

\* normalize_echo_path on group 2 of the match.
NormalizeEchoPath(path, h) ==
    LowerSeq(ExplicitRule(ExplicitRule(Slashed(path), h, "resource"), h, "scripts"))

\* Group 2 of r'(echo\s+["\']?#base["\']?\s+["\']?)(.*?\.(?:res|vmt))(["\']?.*)':
\* the shortest start of the path that ends in .res or .vmt, 0 when none does.
EchoCut(path) ==
    LET hits == {n \in DOMAIN path : path[n] \in ResVmtTokens}
    IN IF hits = {} THEN 0 ELSE CHOOSE n \in hits : \A m \in hits : n <= m

EchoLine(l, h) ==
    LET n == EchoCut(l.path)
    IN IF l.kind = "echo" /\ n > 0
       THEN [l EXCEPT !.path = NormalizeEchoPath(SubSeq(l.path, 1, n), h)
                                  \o SubSeq(l.path, n + 1, Len(l.path))]
       ELSE l

normalize_cfg_echo_paths(content, h) ==
    [n \in DOMAIN content |-> EchoLine(content[n], h)]

\* i lies under the entry d.
Under(f, i, d) ==
    LET p == PathOf(f, i)
        q == PathOf(f, d)
    IN Len(p) > Len(q) /\ SubSeq(p, 1, Len(q)) = q

CfgFolder == <<"cfg">>

\* list(cfg_folder.rglob("*.cfg"))
CfgFiles(f) ==
    IF ~Exists(f, CfgFolder) THEN {}
    ELSE {i \in DOMAIN f : /\ f[i].kind = "file" /\ f[i].name \in CfgNames
                           /\ Under(f, i, Lookup(f, CfgFolder))}

process_cfg_files ==
    /\ stage = "cfg"
    /\ LET new == [i \in DOMAIN fs |->
                      IF i \in CfgFiles(fs)
                      THEN [fs[i] EXCEPT !.content = normalize_cfg_echo_paths(@, hud_name)]
                      ELSE fs[i]]
       IN /\ fs' = new
          /\ counts' = [counts EXCEPT !.cfg = Cardinality({i \in DOMAIN fs : new[i] # fs[i]})]
    /\ stage' = "res"
    /\ UNCHANGED <<hud_name, run, todo, rename_count, visited, stack, call, fs0,
                   rec, applied, snap>>

-----------------------------------------------------------------------------
(* Stage 4: process_res_files and its three passes. *)

CFG_DEPTH_OFFSET == 2

\* r'(#base\s+")(.*?cfg[^"]+)(")': a #base path holding "cfg" with text after it.
MatchesCfgBase(l) ==
    l.kind = "base" /\ \E n \in 1..(Len(l.path) - 1) : l.path[n] \in CfgTokens

\* normalize_cfg_path on group 2 of the match.
NormalizeCfgPath(path, file_depth) ==
    LET p == Slashed(path)
        current_ups == CountUps(p)
        needed_ups == file_depth + CFG_DEPTH_OFFSET
    IN LowerSeq(IF Contains(p, <<SL, "cfg", SL>>) /\ current_ups # needed_ups
                THEN Ups(needed_ups) \o extract_path_after_parents(p)
                ELSE p)

normalize_cfg_paths_in_res(content, file_depth) ==
    [n \in DOMAIN content |->
        IF MatchesCfgBase(content[n])
        THEN [content[n] EXCEPT !.path = NormalizeCfgPath(@, file_depth)]
        ELSE content[n]]

\* r'(#base\s+")((?:(?!cfg)[^"])+\.res)(")': a #base path ending in .res with no
\* "cfg" in it.
MatchesResBase(l) ==
    /\ l.kind = "base" /\ l.path # <<>>
    /\ Last(l.path) \in ResTokens
    /\ \A n \in DOMAIN l.path : l.path[n] \notin CfgTokens

normalize_res_base_paths(content) ==
    [n \in DOMAIN content |->
        IF MatchesResBase(content[n])
        THEN [content[n] EXCEPT !.path = LowerSeq(Slashed(@))]
        ELSE content[n]]

\* r'(")((?:resource|scripts)[/\\][^"]+)': a quoted string starting with
\* resource/ or scripts/, whatever directive it belongs to.
MatchesSchema(l) ==
    /\ l.kind \in {"base", "font", "schema"}
    /\ Len(l.path) >= 3
    /\ Lower(l.path[1]) \in {"resource", "scripts"}
    /\ l.path[2] \in {SL, BS}

normalize_schema_declarations(content) ==
    [n \in DOMAIN content |->
        IF MatchesSchema(content[n])
        THEN [content[n] EXCEPT !.path = LowerSeq(Slashed(@))]
        ELSE content[n]]

\* "apply all normalizations"
ThreePasses(content, file_depth) ==
    normalize_schema_declarations(
        normalize_res_base_paths(normalize_cfg_paths_in_res(content, file_depth)))

\* list(hud_dir.rglob("*.res"))
ResFiles(f) == {i \in DOMAIN f : f[i].kind = "file" /\ f[i].name \in ResNames}

\* len(relative_path.parts) - 1
FileDepth(f, i) == Len(PathOf(f, i)) - 1

process_res_files ==
    /\ stage = "res"
    /\ LET new == [i \in DOMAIN fs |->
                      IF i \in ResFiles(fs)
                      THEN [fs[i] EXCEPT !.content = ThreePasses(@, FileDepth(fs, i))]
                      ELSE fs[i]]
       IN /\ fs' = new
          /\ counts' = [counts EXCEPT !.res = Cardinality({i \in DOMAIN fs : new[i] # fs[i]})]
    /\ stage' = "done"
    /\ UNCHANGED <<hud_name, run, todo, rename_count, visited, stack, call, fs0,
                   rec, applied, snap>>

-----------------------------------------------------------------------------
(* main, and a second invocation of the tool on the same folder. *)

\* hud_folder_name.lower() and the rename of the HUD folder itself.
StartMain ==
    /\ stage = "main"
    /\ hud_name' = Lower(hud_name)
    /\ stage' = "names"
    /\ UNCHANGED <<fs, run, todo, rename_count, visited, stack, call, counts, fs0,
                   rec, applied, snap>>

Rerun ==
    /\ stage = "done" /\ run = 1
    /\ run' = 2
    /\ snap' = fs
    /\ stage' = "main"
    /\ UNCHANGED <<fs, hud_name, todo, rename_count, visited, stack, call, counts,
                   fs0, rec, applied>>

-----------------------------------------------------------------------------
(* SpecNames: normalize_filenames over every small tree. *)

TreeNames == {"ab", "Ab", "AB", "C"}

\* Parent vectors of the trees over 1..n, entries numbered breadth-first.
ParentVecs(n) ==
    {pv \in [1..n -> 0..(n - 1)] :
        /\ \A i \in 1..n : pv[i] < i
        /\ \A i \in 1..(n - 1) : pv[i] <= pv[i + 1]}

Tree(pv, nm) ==
    [i \in DOMAIN pv |->
        [parent |-> pv[i], name |-> nm[i],
         kind |-> IF \E j \in DOMAIN pv : pv[j] = i THEN "dir" ELSE "file",
         content |-> <<>>]]

\* Sibling names are distinct (a case-sensitive file system).
NamesFor(pv) ==
    {nm \in [DOMAIN pv -> TreeNames] :
        \A i, j \in DOMAIN pv : (i # j /\ pv[i] = pv[j]) => nm[i] # nm[j]}

Idle(f, h, st) ==
    /\ fs = f /\ fs0 = f /\ snap = f
    /\ hud_name = h
    /\ stage = st
    /\ run = 1
    /\ todo = {}
    /\ rename_count = 0
    /\ visited = {}
    /\ stack = <<>>
    /\ call = NoCall
    /\ counts = [scheme |-> 0, cfg |-> 0, res |-> 0]
    /\ rec = <<>>
    /\ applied = [i \in DOMAIN f |-> 0]

InitNames ==
    \E n \in 1..MaxEntries : \E pv \in ParentVecs(n) : \E nm \in NamesFor(pv) :
        Idle(Tree(pv, nm), "myhud", "names")

NextNames == ListPaths \/ RenameStep \/ FinishNames

SpecNames == InitNames /\ [][NextNames]_vars

-----------------------------------------------------------------------------
(* SpecScheme: process_clientscheme over every small #base include graph.   *)

Entry(parent, name, kind, content) ==
    [parent |-> parent, name |-> name, kind |-> kind, content |-> content]

SchemeFiles == 2..4
SchemeTargets == {<<"clientscheme.res">>, <<"a.res">>, <<"b.res">>, <<"missing.res">>,
                  <<UP, SL, "resource", SL, "a.res">>}
SchemeEdges == [src : SchemeFiles, dst : SchemeTargets]

UpperFont == <<"Fonts", BS, "Tf2Build.ttf">>
LowerFont == <<"fonts", SL, "tf2build.ttf">>

\* The content of file i: a font declaration, then its #base directives in order.
SchemeContent(edges, i) ==
    LET Mine(e) == e.src = i
        mine == SelectSeq(edges, Mine)
    IN <<FontLine(UpperFont)>> \o [n \in DOMAIN mine |-> BaseLine(mine[n].dst)]

SchemeTree(edges) ==
    (1 :> Entry(Root, "resource", "dir", <<>>))
    @@ (2 :> Entry(1, "clientscheme.res", "file", SchemeContent(edges, 2)))
    @@ (3 :> Entry(1, "a.res", "file", SchemeContent(edges, 3)))
    @@ (4 :> Entry(1, "b.res", "file", SchemeContent(edges, 4)))

InitScheme ==
    \E n \in 0..MaxBase : \E edges \in [1..n -> SchemeEdges] :
        Idle(SchemeTree(edges), "myhud", "scheme")

NextScheme ==
    StartScheme \/ SchemeVisit \/ SchemeInclude \/ SchemeReturn \/ FinishScheme

SpecScheme == InitScheme /\ [][NextScheme]_vars

\* The program is one thread that runs to its end: a step that can be taken is.
SpecSchemeFair == SpecScheme /\ WF_vars(NextScheme)

-----------------------------------------------------------------------------
(* SpecEcho: process_cfg_files over a .cfg file with one echo #base line.    *)

\* Paths of up to n directory segments from segs, each followed by the separator
\* sep, and a file name.
RECURSIVE Joined(_, _)
Joined(dirs, sep) ==
    IF dirs = <<>> THEN <<>> ELSE <<Head(dirs), sep>> \o Joined(Tail(dirs), sep)

PathsOver(segs, n, names) ==
    {Joined(dirs, sep) \o <<name>> :
        dirs \in UNION {[1..m -> segs] : m \in 0..n}, sep \in {SL, BS}, name \in names}

EchoSegs == {UP, "resource", "Resource", "scripts", "Scripts", "custom", "myhud", "ui"}
EchoNames == {"Foo.res", "a.vmt", "x.txt"}
EchoPaths == PathsOver(EchoSegs, MaxEchoSegs, EchoNames)

EchoQuoted(path) == Line("echo", "echo \"#base\" \"", path, "\"")
EchoBare(path) == Line("echo", "ECHO #BASE ", path, " // hud")

EchoTree(l) ==
    (1 :> Entry(Root, "cfg", "dir", <<>>))
    @@ (2 :> Entry(1, "x.cfg", "file", <<l>>))

InitEcho ==
    \E path \in EchoPaths : \E l \in {EchoQuoted(path), EchoBare(path)} :
        Idle(EchoTree(l), "myhud", "cfg")

NextEcho == process_cfg_files

SpecEcho == InitEcho /\ [][NextEcho]_vars

-----------------------------------------------------------------------------
(* SpecRes: process_res_files over a .res file with one #base line.          *)

ResSegs == {UP, "cfg", "CFG", "a"}
ResPathNames == {"x.txt", "X.txt", "foo.res"}
ResPaths == PathsOver(ResSegs, MaxResSegs, ResPathNames)

\* foo.res at depth d, below the directories resource and ui.
ResTree(d, l) ==
    LET dirs == <<"resource", "ui">>
    IN [i \in 1..(d + 1) |->
           IF i <= d THEN Entry(i - 1, dirs[i], "dir", <<>>)
           ELSE Entry(d, "foo.res", "file", <<l>>)]

InitRes ==
    \E d \in 0..MaxDepth : \E path \in ResPaths :
        Idle(ResTree(d, BaseLine(path)), "myhud", "res")

NextRes == process_res_files

SpecRes == InitRes /\ [][NextRes]_vars

-----------------------------------------------------------------------------
(* Spec: main() run on a HUD folder, and run once more on the result.        *)

HudBases2 == {<<"fonts.res">>, <<"Fonts.res">>, <<"missing.res">>}
HudBases3 == {<<"clientscheme.res">>, <<UP, SL, UP, SL, "CFG", SL, "x.txt">>,
              <<UP, SL, UP, SL, UP, SL, "cfg", SL, "x.txt">>}
HudFonts == {UpperFont, LowerFont, <<"Resource", BS, "Fonts", BS, "Tf2Build.ttf">>}
HudEchoes == {<<UP, SL, UP, SL, "resource", SL, "ui", SL, "Foo.res">>,
              <<UP, SL, UP, SL, "Resource", SL, "ui", SL, "Foo.res">>,
              <<UP, SL, UP, SL, "custom", SL, "myhud", SL, "resource", SL, "ui", SL, "foo.res">>}

HudTree(n1, n2, n3, c2, c3, e) ==
    (1 :> Entry(Root, n1, "dir", <<>>))
    @@ (2 :> Entry(1, n2, "file", c2))
    @@ (3 :> Entry(1, n3, "file", c3))
    @@ (4 :> Entry(Root, "cfg", "dir", <<>>))
    @@ (5 :> Entry(4, "x.cfg", "file", <<EchoQuoted(e)>>))

Init ==
    \E n1 \in {"resource", "Resource"}, n2 \in {"clientscheme.res", "ClientScheme.res"},
       n3 \in {"fonts.res", "Fonts.res"}, h \in {"myhud", "MyHud"} :
    \E f2 \in {UpperFont, LowerFont}, f3 \in HudFonts, b2 \in HudBases2,
       b3 \in HudBases3, e \in HudEchoes :
        Idle(HudTree(n1, n2, n3, <<FontLine(f2), BaseLine(b2)>>,
                     <<FontLine(f3), BaseLine(b3)>>, e), h, "main")

Next ==
    \/ StartMain
    \/ ListPaths \/ RenameStep \/ FinishNames
    \/ StartScheme \/ SchemeVisit \/ SchemeInclude \/ SchemeReturn \/ FinishScheme
    \/ process_cfg_files
    \/ process_res_files
    \/ Rerun

Spec == Init /\ [][Next]_vars

-----------------------------------------------------------------------------
(* The claims. *)

HasUpper(name) == name # Lower(name)
Renamed(i) == i \in DOMAIN fs /\ fs[i].name # fs0[i].name
Siblings(f, i, j) == i # j /\ f[i].parent = f[j].parent

\* C2 as stated: once normalize_filenames has finished, no entry under the root
\* has an uppercase character in its name.
C2_NoUppercaseLeft ==
    stage = "scheme" => \A i \in DOMAIN fs : ~HasUpper(fs[i].name)

\* C2 as amended: once normalize_filenames has finished, an entry still has an
\* uppercase character in its name only if its parent directory holds another
\* entry carrying the lowercase form of that name.
C2_UppercaseOnlyOnCollision ==
    stage = "scheme" =>
        \A i \in DOMAIN fs :
            HasUpper(fs[i].name) =>
                \E j \in DOMAIN fs : Siblings(fs, i, j) /\ fs[j].name = Lower(fs[i].name)

C2_Witness ==
    /\ stage = "scheme"
    /\ \E i \in DOMAIN fs : Renamed(i)
    /\ \E i, j \in DOMAIN fs :
         /\ Siblings(fs, i, j) /\ HasUpper(fs[i].name)
         /\ ~Renamed(j) /\ fs[j].name = Lower(fs[i].name)

\* C7: normalize_filenames never renames an entry onto a name its parent directory
\* already holds, so the entries of the tree and the content of every file stay
\* what they were, and rename_count is the number of entries whose name changed.
C7_Preserved ==
    /\ DOMAIN fs = DOMAIN fs0
    /\ \A i \in DOMAIN fs :
         /\ fs[i].content = fs0[i].content
         /\ fs[i].kind = fs0[i].kind
         /\ fs[i].parent = fs0[i].parent
    /\ rename_count = Cardinality({i \in DOMAIN fs : fs[i].name # fs0[i].name})

C7_NoReplace ==
    \A i \in DOMAIN fs :
        (i \in DOMAIN fs' /\ fs'[i].name # fs[i].name) =>
            ~\E j \in DOMAIN fs : Siblings(fs, i, j) /\ fs[j].name = fs'[i].name

C7_CollisionSkip == []C7_Preserved /\ [][C7_NoReplace]_vars

C7_Witness ==
    /\ stage = "scheme"
    /\ \E i, j \in DOMAIN fs :
         /\ Siblings(fs, i, j) /\ HasUpper(fs[i].name)
         /\ Renamed(j) /\ fs[j].name = Lower(fs[i].name)

\* C10: whenever normalize_filenames examines an entry, the path recorded for it
\* in all_paths still names that entry: neither it nor any directory above it
\* has been renamed, whatever the tree and the order among equally deep paths.
C10_RecordedPathsValid ==
    /\ stage # "crashed"
    /\ stage = "renaming" =>
          \A p \in SortedFirst(todo) :
              /\ rec[p] \in DOMAIN fs
              /\ PathOf(fs, rec[p]) = p
              /\ Lookup(fs, p) = rec[p]

C10_Witness ==
    /\ stage = "renaming"
    /\ \E p \in SortedFirst(todo) :
         /\ HasUpper(Last(p))
         /\ \E i \in DOMAIN fs : fs[i].parent = rec[p] /\ Renamed(i)

-----------------------------------------------------------------------------
(* Claims about the text rewrites and the whole run. *)

NoCounts == [scheme |-> 0, cfg |-> 0, res |-> 0]

\* C1: a second run of the whole pipeline on the result of the first changes no
\* file name and no file content, and every stage of it counts zero changes.
C1_SecondRunChangesNothing ==
    (stage = "done" /\ run = 2) =>
        /\ fs = snap
        /\ rename_count = 0
        /\ counts = NoCounts

\* The one line of the .res file of SpecRes, before and after the stage.
ResFile(f) == CHOOSE i \in DOMAIN f : f[i].kind = "file"
ResPathIn(f) == f[ResFile(f)].content[1].path

\* p is k times "../", then cfg/<name>.
IsUpsCfgName(p, k) ==
    /\ Len(p) = 2 * k + 3
    /\ LeadingUps(p) = k
    /\ p[2 * k + 1] = "cfg" /\ p[2 * k + 2] = SL
    /\ p[2 * k + 3] \in ResPathNames

\* C3: a directive #base "<k times ../>cfg/<name>" (k >= 0) in a .res file at depth
\* d comes out of the Resource Path Normalizer as d+2 times ../ followed by
\* cfg/<name> in lowercase when k # d+2, and only lowercased when k = d+2.
C3_DepthCorrectPrefix ==
    stage = "done" =>
        \A k \in 0..MaxResSegs :
            IsUpsCfgName(ResPathIn(fs0), k) =>
                LET d == FileDepth(fs0, ResFile(fs0))
                    name == Last(ResPathIn(fs0))
                IN ResPathIn(fs) =
                       IF k # d + 2
                       THEN Ups(d + 2) \o <<"cfg", SL, Lower(name)>>
                       ELSE LowerSeq(ResPathIn(fs0))

\* The one line of the .cfg file of SpecEcho.
EchoIn(f) == f[2].content[1]

\* p holds a run of one or more "../" directly followed by <seg>/.
HasUpsBefore(p, seg) ==
    \E n \in 1..(Len(p) - 3) :
        p[n] = UP /\ p[n + 1] = SL /\ p[n + 2] = seg /\ p[n + 3] = SL

\* p is k >= 1 times "../", then <seg>/, then a rest without resource or scripts.
SimpleEcho(p, seg) ==
    /\ LeadingUps(p) >= 1
    /\ Len(p) >= 2 * LeadingUps(p) + 3
    /\ p[2 * LeadingUps(p) + 1] = seg /\ p[2 * LeadingUps(p) + 2] = SL
    /\ \A n \in (2 * LeadingUps(p) + 3)..Len(p) :
           Lower(p[n]) \notin {"resource", "scripts", UP}

EchoPre(p, seg) ==
    /\ Last(p) \in ResVmtTokens
    /\ \A n \in DOMAIN p : p[n] # BS
    /\ HasUpsBefore(p, seg)
    /\ ~Contains(p, Canonical("myhud", seg))

\* C4: an echo #base line whose path ends in .res or .vmt, holds ../-prefixed
\* resource/ (or scripts/) and not /custom/<hud_name>/resource/ (or scripts/), is
\* rewritten with ../../custom/<hud_name>/resource/ (or scripts/) in place of the
\* run of ../ and the segment, the path lowercased, the text around the path
\* kept; and rewriting the result again changes nothing.
C4_EchoCanonical ==
    stage = "res" =>
        \A seg \in {"resource", "scripts"} :
            EchoPre(EchoIn(fs0).path, seg) =>
                LET in == EchoIn(fs0)
                    out == EchoIn(fs)
                IN /\ out.pre = in.pre /\ out.suf = in.suf
                   /\ out.path = LowerSeq(out.path)
                   /\ Contains(out.path, Canonical("myhud", seg))
                   /\ SimpleEcho(in.path, seg) =>
                        out.path = Explicit("myhud", seg)
                                     \o LowerSeq(SubSeq(in.path, 2 * LeadingUps(in.path) + 3,
                                                        Len(in.path)))
                   /\ normalize_cfg_echo_paths(<<out>>, hud_name) = <<out>>

\* What is left of the walk, as a natural number: the files not yet visited, the
\* #base directives the active calls have still to follow, the active calls, the
\* call being entered.
WalkLeft ==
    LET lines == Cardinality(UNION {{<<i, n>> : n \in DOMAIN fs[i].content} : i \in DOMAIN fs})
        unvisited == {i \in DOMAIN fs : fs[i].kind = "file" /\ PathOf(fs, i) \notin visited}
        RECURSIVE Todo(_)
        Todo(n) == IF n = 0 THEN 0 ELSE Len(stack[n].todo) + Todo(n - 1)
    IN (2 * lines + 2) * Cardinality(unvisited)
       + 2 * Todo(Len(stack)) + Len(stack)
       + (IF call # NoCall THEN 1 ELSE 0)
       + (CASE stage = "scheme" -> 3 [] stage = "walk" -> 1 [] OTHER -> 0)

C5_OncePerFile == \A i \in DOMAIN applied : applied[i] <= 1

\* Until the stage is over no exception ends it and one of its steps can be taken.
C5_NeverStuck ==
    /\ stage \in {"scheme", "walk", "cfg"}
    /\ stage = "walk" => (AtEntry \/ AtMatch \/ AtLoopEnd \/ AtEnd)

C5_Progress == WalkLeft' < WalkLeft

\* C5: process_clientscheme started at clientscheme.res returns, whatever the
\* #base include graph: every step of the walk uses up part of a finite measure
\* and the walk never stops short of its end; and no file has its font rewrite
\* applied twice.
C5_CycleSafety ==
    /\ []C5_OncePerFile
    /\ []C5_NeverStuck
    /\ [][C5_Progress]_vars

\* The same end, as a liveness property of SpecSchemeFair.
C5_Terminates == <>(stage = "cfg")

\* A #base directive leads back to a file whose call is still active.
C5_Witness ==
    /\ stage = "walk" /\ call # NoCall
    /\ \E n \in DOMAIN stack : stack[n].file = call
    /\ Len(stack) >= 2
    /\ applied[Lookup(fs, call)] = 1

\* The files reached from clientscheme.res through #base directives in the tree f.
Included(f) ==
    LET RECURSIVE R(_)
        R(S) ==
            LET step == {Lookup(f, ResolveBase(PathOf(f, i), p)) :
                            <<i, p>> \in UNION {{<<j, q>> :
                                q \in {f[j].content[n].path :
                                         n \in {m \in DOMAIN f[j].content :
                                                  f[j].content[m].kind = "base"}}}
                                : j \in S}}
                nxt == S \cup {i \in step : i \in DOMAIN f /\ f[i].kind = "file"}
            IN IF nxt = S THEN S ELSE R(nxt)
    IN IF Exists(f, StartFile) THEN R({Lookup(f, StartFile)}) ELSE {}

\* Every #base path of the tree f names a file of f.
BasesNameFiles(f) ==
    \A i \in DOMAIN f : \A n \in DOMAIN f[i].content :
        f[i].content[n].kind = "base" =>
            LET t == Lookup(f, ResolveBase(PathOf(f, i), f[i].content[n].path))
            IN t \in DOMAIN f /\ f[t].kind = "file"

FontsClean(content) ==
    \A n \in DOMAIN content :
        content[n].kind = "font" =>
            \A m \in DOMAIN content[n].path :
                /\ content[n].path[m] # BS
                /\ content[n].path[m] = Lower(content[n].path[m])

\* C6: after one run on a tree whose #base paths all name files of that tree, every
\* font value in resource/clientscheme.res and in every file it includes, directly
\* or through further #base directives, has no backslash and no uppercase letter.
C6_FontsReachEveryInclude ==
    (stage = "done" /\ run = 1 /\ BasesNameFiles(fs0)) =>
        \A i \in Included(fs) : FontsClean(fs[i].content)

\* C8: normalize_cfg_echo_paths applied to its own output returns it unchanged.
C8_EchoIdempotent ==
    stage = "res" =>
        \A i \in CfgFiles(fs) :
            normalize_cfg_echo_paths(fs[i].content, hud_name) = fs[i].content

\* C9: the three passes of the Resource Path Normalizer, applied at the same depth
\* to their own output, return it unchanged.
C9_ResIdempotent ==
    stage = "done" =>
        \A i \in ResFiles(fs) :
            ThreePasses(fs[i].content, FileDepth(fs, i)) = fs[i].content

====
